---- MODULE Spec2Model ----
(***************************************************************************)
(* Model of src/common/http_defs.cc (Pistache HTTP definitions):           *)
(*   - the HTTP-date recognizers and the FullDate::fromString cascade,     *)
(*   - FullDate::write,                                                    *)
(*   - CacheDirective construction and delta().                            *)
(*                                                                         *)
(* Strings are sequences of one-character strings.  64-bit integers are    *)
(* kept as five base-10000 limbs (most significant first), because TLC's  *)
(* integers are 32 bits wide; the unsigned -> signed cast of parse_epoch   *)
(* is modelled at its real width of 64 bits.                               *)
(*                                                                         *)
(* A time point is kept as its count of whole seconds since the epoch.     *)
(* FullDate::time_point is declared in http_defs.h; where http_defs.cc     *)
(* converts between seconds and the nanoseconds of std::chrono's           *)
(* system_clock (parse_epoch, system_clock::to_time_t) the product by 10^9 *)
(* is done in 64 bits, and every result an overflowing product can have is *)
(* an outcome of the operator.  A text that the code does not determine    *)
(* is the value Indeterminate.                                             *)
(***************************************************************************)
EXTENDS Integers, Sequences, FiniteSets

(***************************************************************************)
(* Characters                                                              *)
(***************************************************************************)
DigitChars == <<"0", "1", "2", "3", "4", "5", "6", "7", "8", "9">>

LowerChars ==
    <<"a", "b", "c", "d", "e", "f", "g", "h", "i", "j", "k", "l", "m",
      "n", "o", "p", "q", "r", "s", "t", "u", "v", "w", "x", "y", "z">>

UpperChars ==
    <<"A", "B", "C", "D", "E", "F", "G", "H", "I", "J", "K", "L", "M",
      "N", "O", "P", "Q", "R", "S", "T", "U", "V", "W", "X", "Y", "Z">>

Range(f) == { f[i] : i \in DOMAIN f }

\* std::isdigit in the "C" locale
isdigit(c) == c \in Range(DigitChars)

DigitVal(c) == (CHOOSE i \in 1..10 : DigitChars[i] = c) - 1

\* std::isspace in the "C" locale: space, \t, \n, \v, \f, \r (the vertical
\* tab stands in its string as the character itself)
isspace(c) == c \in {" ", "\t", "\n", "", "\f", "\r"}

isalnum(c) == isdigit(c) \/ c \in Range(LowerChars) \/ c \in Range(UpperChars)

toupper(c) ==
    IF c \in Range(LowerChars)
    THEN UpperChars[CHOOSE i \in 1..26 : LowerChars[i] = c]
    ELSE c

(***************************************************************************)
(* 64-bit integers as five base-10000 limbs                                *)
(***************************************************************************)
Zero64 == <<0, 0, 0, 0, 0>>

\* 2^64 - 1 = 18446744073709551615  (ULLONG_MAX)
U64Max == <<1844, 6744, 737, 955, 1615>>

\* 2^64
Two64 == <<1844, 6744, 737, 955, 1616>>

\* 2^63 = 9223372036854775808
Two63 == <<922, 3372, 368, 5477, 5808>>

RECURSIVE CmpFrom(_, _, _)
CmpFrom(a, b, i) ==
    IF i > 5 THEN 0
    ELSE IF a[i] < b[i] THEN -1
    ELSE IF a[i] > b[i] THEN 1
    ELSE CmpFrom(a, b, i + 1)

\* -1, 0, 1 as a < b, a = b, a > b
Cmp(a, b) == CmpFrom(a, b, 1)

RECURSIVE MulAddFrom(_, _, _, _)
\* limbs i..1 still to do (from the least significant, index 5), carry c
MulAddFrom(a, m, c, i) ==
    IF i = 0 THEN [mag |-> a, carry |-> c]
    ELSE LET v == a[i] * m + c
         IN  MulAddFrom([a EXCEPT ![i] = v % 10000], m, v \div 10000, i - 1)

\* a * m + c, for 0 <= m <= 100000 and 0 <= c <= 1000000: the low five limbs
\* and the carry out
MulAdd(a, m, c) == MulAddFrom(a, m, c, 5)

RECURSIVE SubFrom(_, _, _, _)
SubFrom(a, b, borrow, i) ==
    IF i = 0 THEN a
    ELSE LET v == a[i] - b[i] - borrow
         IN  IF v < 0
             THEN SubFrom([a EXCEPT ![i] = v + 10000], b, 1, i - 1)
             ELSE SubFrom([a EXCEPT ![i] = v], b, 0, i - 1)

\* a - b for a >= b
Sub(a, b) == SubFrom(a, b, 0, 5)

RECURSIVE DivModFrom(_, _, _, _)
DivModFrom(a, d, r, i) ==
    IF i > 5 THEN [q |-> a, r |-> r]
    ELSE LET v == r * 10000 + a[i]
         IN  DivModFrom([a EXCEPT ![i] = v \div d], d, v % d, i + 1)

\* quotient and remainder of a by d, for 0 < d <= 100000
DivMod(a, d) == DivModFrom(a, d, 0, 1)

\* limbs of a natural number below 2^31
FromNat(n) ==
    <<0, 0, n \div 100000000, (n \div 10000) % 10000, n % 10000>>

FitsInt(a) == a[1] = 0 /\ a[2] = 0 /\ a[3] <= 20

ToNat(a) == a[3] * 100000000 + a[4] * 10000 + a[5]

\* A signed 64-bit value: sign and magnitude (zero is not negative)
S64(neg, mag) == [neg |-> neg /\ mag # Zero64, mag |-> mag]

\* static_cast<int64_t>(uint64_t): values from 2^63 on wrap to n - 2^64
CastU64ToS64(n) ==
    IF Cmp(n, Two63) < 0 THEN S64(FALSE, n) ELSE S64(TRUE, Sub(Two64, n))

RECURSIVE AddFrom(_, _, _, _)
AddFrom(a, b, c, i) ==
    IF i = 0 THEN a
    ELSE LET v == a[i] + b[i] + c
         IN  AddFrom([a EXCEPT ![i] = v % 10000], b, v \div 10000, i - 1)

\* a + b, for a sum below 10^20
Add(a, b) == AddFrom(a, b, 0, 5)

RECURSIVE Mod64(_)
\* a modulo 2^64
Mod64(a) == IF Cmp(a, Two64) >= 0 THEN Mod64(Sub(a, Two64)) ELSE a

\* 10 * a modulo 2^64, for a below 2^64
Times10(a) == Mod64(MulAdd(Mod64(MulAdd(a, 5, 0).mag), 2, 0).mag)

RECURSIVE TimesPow10(_, _)
\* 10^k * a modulo 2^64
TimesPow10(a, k) ==
    IF k = 0 THEN a
    ELSE LET r == Times10(a)
         IN  IF r = Zero64 THEN r ELSE TimesPow10(r, k - 1)

\* the two's complement of a in 64 bits
Neg64(a) == IF a = Zero64 THEN a ELSE Sub(Two64, a)

RECURSIVE StripZeros(_)
StripZeros(t) ==
    IF Len(t) > 1 /\ t[1] = "0" THEN StripZeros(Tail(t)) ELSE t

Digit4(n) ==
    <<DigitChars[(n \div 1000) + 1], DigitChars[((n \div 100) % 10) + 1],
      DigitChars[((n \div 10) % 10) + 1], DigitChars[(n % 10) + 1]>>

\* the decimal digits of a
DecimalLimbs(a) ==
    StripZeros(Digit4(a[1]) \o Digit4(a[2]) \o Digit4(a[3]) \o Digit4(a[4])
               \o Digit4(a[5]))

(***************************************************************************)
(* std::chrono conversions between seconds and the nanoseconds of          *)
(* system_clock (libstdc++), both with a signed 64-bit count               *)
(***************************************************************************)
\* seconds -> nanoseconds: the count times 10^9.  For a count beyond
\* 9223372036 in size the product does not fit and the multiplication is
\* undefined; this is the product the instruction leaves, modulo 2^64
seconds_to_nanoseconds(s) ==
    CastU64ToS64(IF s.neg THEN Neg64(TimesPow10(s.mag, 9))
                 ELSE TimesPow10(s.mag, 9))

\* duration_cast<seconds>(nanoseconds): division by 10^9 toward zero
nanoseconds_to_seconds(ns) ==
    S64(ns.neg, DivMod(DivMod(DivMod(ns.mag, 10000).q, 10000).q, 10).q)

through_nanoseconds(s) == nanoseconds_to_seconds(seconds_to_nanoseconds(s))

\* time_point(std::chrono::seconds(n)), in whole seconds: n itself for a
\* time_point counting seconds, and for one counting nanoseconds the product
\* as the multiplication leaves it (n again when the product fits)
time_point_of_seconds(s) == {s, through_nanoseconds(s)}

\* std::chrono::system_clock::to_time_t(date_): the seconds of the
\* system_clock::time_point made from date_.  Where seconds * 10^9 overflows
\* the outcome is either the wrapped product divided by 10^9 again, or the
\* seconds unchanged (a compiler that assumes no overflow cancels the
\* multiplication against the division)
to_time_t(tp) == {tp, through_nanoseconds(tp)}

(***************************************************************************)
(* Calendar arithmetic of the date library (proleptic Gregorian, days      *)
(* counted from 1970-01-01), used by date::parse and date::to_stream       *)
(***************************************************************************)
\* sys_days(year/month/day)
days_from_civil(y0, m, d) ==
    LET y   == IF m <= 2 THEN y0 - 1 ELSE y0
        era == y \div 400
        yoe == y - era * 400
        mp  == IF m > 2 THEN m - 3 ELSE m + 9
        doy == (153 * mp + 2) \div 5 + d - 1
        doe == yoe * 365 + yoe \div 4 - yoe \div 100 + doy
    IN  era * 146097 + doe - 719468

\* year_month_day(sys_days)
civil_from_days(z0) ==
    LET z   == z0 + 719468
        era == z \div 146097
        doe == z - era * 146097
        yoe == (doe - doe \div 1460 + doe \div 36524 - doe \div 146096) \div 365
        doy == doe - (365 * yoe + yoe \div 4 - yoe \div 100)
        mp  == (5 * doy + 2) \div 153
        d   == doy - (153 * mp + 2) \div 5 + 1
        m   == IF mp < 10 THEN mp + 3 ELSE mp - 9
        y   == yoe + era * 400
    IN  [y |-> IF m <= 2 THEN y + 1 ELSE y, m |-> m, d |-> d]

\* weekday(sys_days): 0 = Sunday .. 6 = Saturday
weekday_from_days(z) == (z + 4) % 7

is_leap(y) == y % 4 = 0 /\ (y % 100 # 0 \/ y % 400 = 0)

last_day_of_month(y, m) ==
    IF m = 2 THEN (IF is_leap(y) THEN 29 ELSE 28)
    ELSE IF m \in {4, 6, 9, 11} THEN 30 ELSE 31

\* year_month_day::ok(); the library's year is a 16-bit value, no year -32768
ymd_ok(y, m, d) ==
    /\ y \in -32767..32767
    /\ m \in 1..12
    /\ d >= 1
    /\ d <= last_day_of_month(y, m)

\* sys_days + time of day, in seconds since the epoch, as a signed 64-bit value
SecondsOf(days, sod) ==
    IF days >= 0
    THEN S64(FALSE, MulAdd(FromNat(days), 86400, sod).mag)
    ELSE S64(TRUE, MulAdd(FromNat(-days - 1), 86400, 86400 - sod).mag)

\* floor<days>(tp) and tp - floor<days>(tp), for a tp whose day count fits an int
DaysFits(t) == FitsInt(DivMod(t.mag, 86400).q)

DaysOf(t) ==
    LET qr == DivMod(t.mag, 86400)
        q  == ToNat(qr.q)
    IN  IF ~t.neg THEN q ELSE IF qr.r = 0 THEN -q ELSE -q - 1

SecOfDay(t) ==
    LET r == DivMod(t.mag, 86400).r
    IN  IF ~t.neg \/ r = 0 THEN r ELSE 86400 - r

(***************************************************************************)
(* The date library's stream readers.  A read starts at position p of the  *)
(* string s and gives [ok, p, v]: whether the stream is still good, the    *)
(* position after the characters consumed, and the value read.             *)
(***************************************************************************)
RECURSIVE CountDigits(_, _, _)
\* how many decimal digits stand at p, counting at most M
CountDigits(s, p, M) ==
    IF M = 0 \/ p > Len(s) \/ ~isdigit(s[p]) THEN 0
    ELSE 1 + CountDigits(s, p + 1, M - 1)

RECURSIVE NumVal(_, _, _)
\* the value of the n digits that end just before position p
NumVal(s, p, n) ==
    IF n = 0 THEN 0 ELSE 10 * NumVal(s, p - 1, n - 1) + DigitVal(s[p - 1])

\* read_unsigned(is, m, M): between m and M digits
read_unsigned(s, p, m, M) ==
    LET n == CountDigits(s, p, M)
    IN  [ok |-> n >= m, p |-> p + n, v |-> NumVal(s, p + n, n)]

\* read_signed(is, m, M): an optional sign, then as read_unsigned
read_signed(s, p, m, M) ==
    IF p <= Len(s) /\ (isdigit(s[p]) \/ s[p] \in {"-", "+"})
    THEN LET signed == s[p] \in {"-", "+"}
             r      == read_unsigned(s, IF signed THEN p + 1 ELSE p,
                                     IF m > 1 THEN m ELSE 1, M)
         IN  [ok |-> r.ok, p |-> r.p,
              v  |-> IF s[p] = "-" THEN -r.v ELSE r.v]
    ELSE [ok |-> m = 0, p |-> p, v |-> 0]

RECURSIVE CountSeconds(_, _, _, _)
\* read_long_double's scan: digits with at most one decimal point, M characters
CountSeconds(s, p, M, pointSeen) ==
    IF M = 0 \/ p > Len(s) THEN 0
    ELSE IF s[p] = "." /\ ~pointSeen THEN 1 + CountSeconds(s, p + 1, M - 1, TRUE)
    ELSE IF isdigit(s[p]) THEN 1 + CountSeconds(s, p + 1, M - 1, pointSeen)
    ELSE 0

\* read_long_double(is, 1, 2) rounded to whole seconds (ties to even): the
\* two characters are "dd", "d", "d.", ".d" or "."
read_seconds(s, p) ==
    LET n == CountSeconds(s, p, 2, FALSE)
        v == IF n = 0 THEN 0
             ELSE IF s[p] = "."
                  THEN (IF n = 2 /\ DigitVal(s[p + 1]) > 5 THEN 1 ELSE 0)
             ELSE IF n = 2 /\ s[p + 1] = "." THEN DigitVal(s[p])
             ELSE NumVal(s, p + n, n)
    IN  [ok |-> n >= 1, p |-> p + n, v |-> v]

\* read(is, CharT): the next character must be c
read_char(s, p, c) ==
    IF p <= Len(s) /\ s[p] = c THEN [ok |-> TRUE, p |-> p + 1, v |-> 0]
    ELSE [ok |-> FALSE, p |-> p, v |-> 0]

RECURSIVE skip_ws(_, _)
\* std::ws: the position of the first character from p on that is no white space
skip_ws(s, p) ==
    IF p <= Len(s) /\ isspace(s[p]) THEN skip_ws(s, p + 1) ELSE p

weekday_names ==
    << <<"S","u","n","d","a","y">>, <<"M","o","n","d","a","y">>,
       <<"T","u","e","s","d","a","y">>, <<"W","e","d","n","e","s","d","a","y">>,
       <<"T","h","u","r","s","d","a","y">>, <<"F","r","i","d","a","y">>,
       <<"S","a","t","u","r","d","a","y">>,
       <<"S","u","n">>, <<"M","o","n">>, <<"T","u","e">>, <<"W","e","d">>,
       <<"T","h","u">>, <<"F","r","i">>, <<"S","a","t">> >>

month_names ==
    << <<"J","a","n","u","a","r","y">>, <<"F","e","b","r","u","a","r","y">>,
       <<"M","a","r","c","h">>, <<"A","p","r","i","l">>, <<"M","a","y">>,
       <<"J","u","n","e">>, <<"J","u","l","y">>, <<"A","u","g","u","s","t">>,
       <<"S","e","p","t","e","m","b","e","r">>, <<"O","c","t","o","b","e","r">>,
       <<"N","o","v","e","m","b","e","r">>, <<"D","e","c","e","m","b","e","r">>,
       <<"J","a","n">>, <<"F","e","b">>, <<"M","a","r">>, <<"A","p","r">>,
       <<"M","a","y">>, <<"J","u","n">>, <<"J","u","l">>, <<"A","u","g">>,
       <<"S","e","p">>, <<"O","c","t">>, <<"N","o","v">>, <<"D","e","c">> >>

RECURSIVE ScanFrom(_, _, _, _, _, _)
\* scan_keyword's loop: at character indx (from 0) of the keywords, `might` are
\* the keywords matched so far and longer than indx, `does` those matched in full
ScanFrom(s, p, names, indx, might, does) ==
    IF might = {} \/ p > Len(s)
    THEN [ok |-> does # {}, p |-> p,
          v  |-> IF does = {} THEN 0 ELSE CHOOSE k \in does : \A j \in does : k <= j]
    ELSE LET c        == toupper(s[p])
             matching == { k \in might : toupper(names[k][indx + 1]) = c }
             newDoes  == { k \in matching : Len(names[k]) = indx + 1 }
             might2   == matching \ newDoes
             does1    == does \cup newDoes
             consume  == matching # {}
             does2    == IF consume /\ Cardinality(might2) + Cardinality(does1) > 1
                         THEN { k \in does1 : Len(names[k]) = indx + 1 }
                         ELSE does1
         IN  ScanFrom(s, IF consume THEN p + 1 ELSE p, names, indx + 1, might2, does2)

\* scan_keyword(is, names): the index (from 1) of the keyword read, matched
\* without regard to case, the longest one that the input spells
scan_keyword(s, p, names) == ScanFrom(s, p, names, 0, DOMAIN names, {})

RECURSIVE CountZone(_, _)
CountZone(s, p) ==
    IF p <= Len(s) /\ (isalnum(s[p]) \/ s[p] \in {"_", "/", "-", "+"})
    THEN 1 + CountZone(s, p + 1)
    ELSE 0

\* %Z: a time zone abbreviation, one or more of [A-Za-z0-9_/+-]; its text is
\* not used for a sys_time
read_zone(s, p) ==
    LET n == CountZone(s, p) IN [ok |-> n >= 1, p |-> p + n, v |-> 0]

(***************************************************************************)
(* date::from_stream: the format interpreter.  The fields read so far are  *)
(* a function from the names of the fields that are set ("wd", "d", "m",   *)
(* "Y", "y", "H", "M", "S") to their values.                               *)
(***************************************************************************)
NoFields == <<>>

\* checked_set: a field is set once; a second, different value is a failure
checked_set(f, k, v) ==
    [ok |-> k \notin DOMAIN f \/ f[k] = v,
     f  |-> [x \in DOMAIN f \cup {k} |-> IF x = k THEN v ELSE f[x]]]

\* The state of a read in progress is st = [ok, p, f]: the stream is good,
\* the next position, the fields set.  A reader's result r = [ok, p, v] moves
\* it on: r failed fails the read, else field k takes the value v.
put_field(st, r, k, v) ==
    IF ~r.ok THEN [ok |-> FALSE, p |-> r.p, f |-> st.f]
    ELSE [ok |-> checked_set(st.f, k, v).ok, p |-> r.p, f |-> checked_set(st.f, k, v).f]

put_value(st, r, k) == put_field(st, r, k, r.v)

put_weekday(st, r) == put_field(st, r, "wd", (r.v - 1) % 7)

put_month(st, r) == put_field(st, r, "m", ((r.v - 1) % 12) + 1)

\* a reader that sets no field
put_none(st, r) == [ok |-> r.ok, p |-> r.p, f |-> st.f]

\* the parts of %T, each read only while the stream is good
time_number(s, st, k) ==
    IF ~st.ok THEN st ELSE put_value(st, read_unsigned(s, st.p, 1, 2), k)

time_colon(s, st) ==
    IF ~st.ok THEN st ELSE put_none(st, read_char(s, st.p, ":"))

time_seconds(s, st) ==
    IF ~st.ok THEN st ELSE put_value(st, read_seconds(s, st.p), "S")

\* %T: read(is, ru{H,1,2}, ':', ru{M,1,2}, ':', rld{S,1,w}), w = 2 for seconds
read_time(s, st) ==
    time_seconds(s,
        time_colon(s,
            time_number(s,
                time_colon(s,
                    time_number(s, st, "H")),
                "M")))

\* the conversion specifier %cmd of from_stream (those the formats here use)
read_command(cmd, s, st) ==
    IF cmd \in {"a", "A"} THEN put_weekday(st, scan_keyword(s, st.p, weekday_names))
    ELSE IF cmd \in {"b", "B", "h"} THEN put_month(st, scan_keyword(s, st.p, month_names))
    ELSE IF cmd = "d" THEN put_value(st, read_signed(s, st.p, 1, 2), "d")
    ELSE IF cmd = "Y" THEN put_value(st, read_signed(s, st.p, 1, 4), "Y")
    ELSE IF cmd = "y" THEN put_value(st, read_unsigned(s, st.p, 1, 2), "y")
    ELSE IF cmd = "T" THEN read_time(s, st)
    ELSE IF cmd = "Z" THEN put_none(st, read_zone(s, st.p))
    ELSE [ok |-> FALSE, p |-> st.p, f |-> st.f]

\* one element of the format at index i: a specifier reads a field, a space
\* matches zero or more white space, any other character must stand in the
\* input; `width` is the number of format characters the element takes
format_item(fmt, i, s, st) ==
    IF fmt[i] = "%"
    THEN [st |-> read_command(fmt[i + 1], s, st), width |-> 2]
    ELSE IF isspace(fmt[i])
    THEN [st |-> [ok |-> TRUE, p |-> skip_ws(s, st.p), f |-> st.f], width |-> 1]
    ELSE [st |-> put_none(st, read_char(s, st.p, fmt[i])), width |-> 1]

RECURSIVE read_format(_, _, _, _)
RECURSIVE read_rest(_, _, _, _)
\* the loop over the format, left at the end of the format or when the stream
\* has failed.  What follows in the input is left unread.
read_format(fmt, i, s, st) ==
    IF i > Len(fmt) THEN st
    ELSE read_rest(fmt, i, s, format_item(fmt, i, s, st))

read_rest(fmt, i, s, item) ==
    IF item.st.ok THEN read_format(fmt, i + item.width, s, item.st) ELSE item.st

\* %y without a century: 69..99 are 1969..1999, 00..68 are 2000..2068
year_of_2digit(y) == IF y >= 69 THEN 1900 + y ELSE 2000 + y

\* the year the fields give: %Y, or %y, which must agree when both are read
YearOfFields(f) ==
    IF "y" \in DOMAIN f
    THEN (IF "Y" \in DOMAIN f
          THEN LET C  == f["Y"] \div 100
                   tY == IF C >= 0 THEN 100 * C + f["y"]
                         ELSE 100 * (C + 1) - (IF f["y"] = 0 THEN 100 ELSE f["y"])
               IN  [ok |-> f["Y"] = tY, Y |-> tY]
          ELSE [ok |-> TRUE, Y |-> year_of_2digit(f["y"])])
    ELSE IF "Y" \in DOMAIN f THEN [ok |-> TRUE, Y |-> f["Y"]]
    ELSE [ok |-> FALSE, Y |-> 0]

FieldOr(f, k, dflt) == IF k \in DOMAIN f THEN f[k] ELSE dflt

FailedParse == [ok |-> FALSE, tp |-> S64(FALSE, Zero64)]

\* the time point of a date that is valid and a time of day below 24:00:00
\* (no %z is read, so the offset is zero); wd is the weekday read, or -1
make_time(yr, m, d, wd, H, M, S) ==
    IF /\ yr.ok
       /\ ymd_ok(yr.Y, m, d)
       /\ wd \in {-1, weekday_from_days(days_from_civil(yr.Y, m, d))}
       /\ H < 24 /\ M < 60 /\ S < 60
    THEN [ok |-> TRUE,
          tp |-> SecondsOf(days_from_civil(yr.Y, m, d), H * 3600 + M * 60 + S)]
    ELSE FailedParse

\* the end of from_stream for a sys_time: the fields must make a valid date
\* whose weekday is the one read; the time point is sys_days(ymd) + tod
fields_to_time(f) ==
    make_time(YearOfFields(f), FieldOr(f, "m", 0), FieldOr(f, "d", 0),
              FieldOr(f, "wd", -1),
              FieldOr(f, "H", 0), FieldOr(f, "M", 0), FieldOr(f, "S", 0))

finish_parse(st) == IF st.ok THEN fields_to_time(st.f) ELSE FailedParse

StartOfStream == [ok |-> TRUE, p |-> 1, f |-> NoFields]

\* in >> date::parse(fmt, tp): [ok |-> !in.fail(), tp |-> the time point
\* assigned], tp being assigned only when the stream has not failed
date_parse(fmt, s) == finish_parse(read_format(fmt, 1, s, StartOfStream))

\* the position in s at which date::parse(fmt, .) stops reading
date_parse_end(fmt, s) == read_format(fmt, 1, s, StartOfStream).p

(***************************************************************************)
(* The format strings of http_defs.cc                                      *)
(***************************************************************************)
\* "%a, %d %b %Y %T %Z"  (parse_RFC_1123, first form, and write RFC1123)
FMT_RFC1123 ==
    <<"%", "a", ",", " ", "%", "d", " ", "%", "b", " ", "%", "Y", " ", "%", "T", " ", "%", "Z">>

\* "%a, %d-%b-%Y %T %Z"  (parse_RFC_1123, second form)
FMT_RFC1123_DASH ==
    <<"%", "a", ",", " ", "%", "d", "-", "%", "b", "-", "%", "Y", " ", "%", "T", " ", "%", "Z">>

\* "%A, %d-%b-%y %T %Z"  (parse_RFC_850)
FMT_RFC850 ==
    <<"%", "A", ",", " ", "%", "d", "-", "%", "b", "-", "%", "y", " ", "%", "T", " ", "%", "Z">>

\* "%a %b %d %T %Y"  (parse_asctime and write AscTime)
FMT_ASCTIME ==
    <<"%", "a", " ", "%", "b", " ", "%", "d", " ", "%", "T", " ", "%", "Y">>

\* "%a, %d-%b-%y %T %Z"  (write RFC850)
FMT_WRITE_RFC850 ==
    <<"%", "a", ",", " ", "%", "d", "-", "%", "b", "-", "%", "y", " ", "%", "T", " ", "%", "Z">>

\* "%a, %d %b %Y %T GMT"  (write RFC1123GMT (std::put_time))
FMT_PUT_RFC1123GMT ==
    <<"%", "a", ",", " ", "%", "d", " ", "%", "b", " ", "%", "Y", " ", "%", "T", " ", "G", "M", "T">>


(***************************************************************************)
(* The recognizers (anonymous namespace of http_defs.cc).  Each takes the  *)
(* string and the caller's time point and gives [ok, tp]: the bool it      *)
(* returns and the value of the reference parameter tp afterwards.         *)
(***************************************************************************)
\* what a recognizer returns and leaves in tp after one parse
one_form(in, tp) == [ok |-> in.ok, tp |-> IF in.ok THEN in.tp ELSE tp]

\* the same after two parses, the second made only when the first failed
two_forms(in, in2, tp) ==
    IF ~in.ok THEN one_form(in2, tp) ELSE [ok |-> TRUE, tp |-> in.tp]

parse_RFC_1123(s, tp) ==
    two_forms(date_parse(FMT_RFC1123, s), date_parse(FMT_RFC1123_DASH, s), tp)

parse_RFC_850(s, tp) == one_form(date_parse(FMT_RFC850, s), tp)

parse_asctime(s, tp) == one_form(date_parse(FMT_ASCTIME, s), tp)

RECURSIVE StoullFrom(_, _, _)
\* the digits from i on, accumulated into acc; "out_of_range" once the value
\* has passed ULLONG_MAX
StoullFrom(s, i, acc) ==
    IF i > Len(s) THEN [status |-> "ok", v |-> acc]
    ELSE LET r == MulAdd(acc, 10, DigitVal(s[i]))
         IN  IF r.carry > 0 \/ Cmp(r.mag, U64Max) > 0
             THEN [status |-> "out_of_range", v |-> U64Max]
             ELSE StoullFrom(s, i + 1, r.mag)

\* std::stoull(s) for a string of digits only (parse_epoch passes no other):
\* no digit at all is std::invalid_argument, a value above 2^64 - 1 is
\* std::out_of_range
stoull(s) ==
    IF Len(s) = 0 THEN [status |-> "invalid_argument", v |-> Zero64]
    ELSE StoullFrom(s, 1, Zero64)

\* parse_epoch: the outcomes, each [status, tp]; status "true" / "false" is
\* the bool returned, any other status is the exception that leaves the
\* function; tp is the reference parameter afterwards
parse_epoch(s, tp) ==
    IF \E i \in 1..Len(s) : ~isdigit(s[i])
    THEN {[status |-> "false", tp |-> tp]}
    ELSE LET n == stoull(s)
         IN  IF n.status = "ok"
             THEN { [status |-> "true", tp |-> t] :
                        t \in time_point_of_seconds(CastU64ToS64(n.v)) }
             ELSE IF n.status = "out_of_range"
             THEN {[status |-> "false", tp |-> tp]}
             ELSE {[status |-> n.status, tp |-> tp]}

(***************************************************************************)
(* date::to_stream and std::put_time, as FullDate::write uses them         *)
(***************************************************************************)
Digit2(n) == <<DigitChars[(n \div 10) + 1], DigitChars[(n % 10) + 1]>>

RECURSIVE Decimal(_)
\* the decimal digits of a natural number
Decimal(n) ==
    IF n < 10 THEN <<DigitChars[n + 1]>>
    ELSE Decimal(n \div 10) \o <<DigitChars[(n % 10) + 1]>>

RECURSIVE ZeroPad(_, _)
ZeroPad(t, w) == IF Len(t) >= w THEN t ELSE ZeroPad(<<"0">> \o t, w)

\* operator<<(ostream, year): width 4 after the sign, filled with zeros
format_year(y) ==
    IF y < 0 THEN <<"-">> \o ZeroPad(Decimal(-y), 4) ELSE ZeroPad(Decimal(y), 4)

\* 2^31 and 2^32
Two31 == <<0, 0, 21, 4748, 3648>>

Two32 == <<0, 0, 42, 9496, 7296>>

\* std::put_time's %Y: tm_year + 1900 as a plain decimal number; the sum is
\* made in an int, and past INT_MAX it comes out 2^32 lower
put_time_year(y) ==
    IF ~y.neg /\ Cmp(y.mag, Two31) >= 0
    THEN <<"-">> \o DecimalLimbs(Sub(Two32, y.mag))
    ELSE IF y.neg THEN <<"-">> \o DecimalLimbs(y.mag)
    ELSE DecimalLimbs(y.mag)

\* a text the code leaves open: the rendering of calendar fields that were
\* never computed, or that the date library computes outside its range
Indeterminate == <<"(indeterminate)">>

\* the calendar fields of a time point: floor<days>(tp), the date of that
\* day, its weekday and the time of day
FieldsOf(tp) ==
    LET days == DaysOf(tp)
        ymd  == civil_from_days(days)
        sod  == SecOfDay(tp)
    IN  [y |-> ymd.y, m |-> ymd.m, d |-> ymd.d,
         wd |-> weekday_from_days(days),
         H |-> sod \div 3600, M |-> (sod \div 60) % 60, S |-> sod % 60]

\* the conversion specifier %cmd on output; put is TRUE for std::put_time
write_command(cmd, fd, put) ==
    IF cmd = "a" THEN weekday_names[fd.wd + 8]
    ELSE IF cmd = "A" THEN weekday_names[fd.wd + 1]
    ELSE IF cmd \in {"b", "h"} THEN month_names[fd.m + 12]
    ELSE IF cmd = "B" THEN month_names[fd.m]
    ELSE IF cmd = "d" THEN Digit2(fd.d)
    ELSE IF cmd = "Y" THEN (IF put THEN put_time_year(fd.y) ELSE format_year(fd.y))
    ELSE IF cmd = "y" THEN Digit2((IF fd.y < 0 THEN -fd.y ELSE fd.y) % 100)
    ELSE IF cmd = "T" THEN Digit2(fd.H) \o <<":">> \o Digit2(fd.M) \o <<":">> \o Digit2(fd.S)
    ELSE IF cmd = "Z" THEN <<"U", "T", "C">>
    ELSE <<>>

RECURSIVE write_format(_, _, _, _)
write_format(fmt, i, fd, put) ==
    IF i > Len(fmt) THEN <<>>
    ELSE IF fmt[i] = "%"
    THEN write_command(fmt[i + 1], fd, put) \o write_format(fmt, i + 2, fd, put)
    ELSE <<fmt[i]>> \o write_format(fmt, i + 1, fd, put)

\* the date library keeps days in an int and the year in a short: the time
\* points whose date lies in the years -32767 .. 32767
to_stream_in_range(tp) ==
    /\ DaysFits(tp)
    /\ DaysOf(tp) >= days_from_civil(-32767, 1, 1)
    /\ DaysOf(tp) <= days_from_civil(32767, 12, 31)

\* date::to_stream(os, fmt, tp) for a sys_time: the text appended to os
to_stream(fmt, tp) ==
    IF to_stream_in_range(tp) THEN write_format(fmt, 1, FieldsOf(tp), FALSE)
    ELSE Indeterminate

\* 730700000 cycles of 400 years in seconds (730700000 * 146097 * 86400, the
\* first whole number of cycles from 2^63 on): added to a time_t it gives a
\* count that is not negative and leaves weekday and date in the cycle alone
EpochShift == <<922, 3465, 9305, 6000, 0>>

\* INT_MAX + 1900 and -(INT_MIN + 1900): gmtime_r gives the years from
\* -2147481748 to 2147485547, those whose tm_year fits an int
TmYearMax == <<0, 0, 21, 4748, 5547>>

TmYearMin == <<0, 0, 21, 4748, 1748>>

\* the year 400 * era + r, for 0 <= r <= 400, as sign and magnitude
year_of_era(era, r) ==
    IF era >= 0 THEN S64(FALSE, MulAdd(FromNat(era), 400, r).mag)
    ELSE S64(TRUE, Sub(MulAdd(FromNat(-era), 400, 0).mag, FromNat(r)))

\* the date of day doe of the 400-year cycle era, cycles beginning on 1 March
civil_of_cycle(era, doe) ==
    LET yoe == (doe - doe \div 1460 + doe \div 36524 - doe \div 146096) \div 365
        doy == doe - (365 * yoe + yoe \div 4 - yoe \div 100)
        mp  == (5 * doy + 2) \div 153
        d   == doy - (153 * mp + 2) \div 5 + 1
        m   == IF mp < 10 THEN mp + 3 ELSE mp - 9
    IN  [y |-> year_of_era(era, IF m <= 2 THEN yoe + 1 ELSE yoe),
         m |-> m, d |-> d]

\* the struct tm of day doe of cycle era, sod seconds into the day
tm_of(era, doe, sod) ==
    LET c == civil_of_cycle(era, doe)
    IN  [y |-> c.y, m |-> c.m, d |-> c.d, wd |-> (doe + 3) % 7,
         H |-> sod \div 3600, M |-> (sod \div 60) % 60, S |-> sod % 60]

tm_of_days(ds) ==
    LET e == DivMod(MulAdd(ds.q, 1, 719468).mag, 146097)
    IN  tm_of(ToNat(e.q) - 730700000, e.r, ds.r)

tm_year_fits(y) ==
    IF y.neg THEN Cmp(y.mag, TmYearMin) <= 0 ELSE Cmp(y.mag, TmYearMax) <= 0

\* gmtime_r(&t, &gmtm): [ok |-> whether gmtm was filled in, tm |-> the fields]
\* (glibc fails with EOVERFLOW, and leaves gmtm alone, when the year does
\* not fit tm_year)
gmtime_r(t) ==
    LET tm == tm_of_days(DivMod(IF t.neg THEN Sub(EpochShift, t.mag)
                                ELSE Add(EpochShift, t.mag), 86400))
    IN  [ok |-> tm_year_fits(tm.y), tm |-> tm]

\* os << std::put_time(&gmtm, fmt) after gmtime_r(&t, &gmtm), whose result
\* write does not look at: when gmtime_r fails gmtm is still uninitialized
put_time(fmt, t) ==
    IF gmtime_r(t).ok THEN write_format(fmt, 1, gmtime_r(t).tm, TRUE)
    ELSE Indeterminate

Types == {"RFC1123", "RFC1123GMT", "RFC850", "AscTime"}

\* what write has done when it returns normally having put text on the stream
written(text) == [os |-> text, thrown |-> FALSE]

\* the RFC1123GMT branch: one outcome for each value to_time_t can give
write_gmt(tp) == { written(put_time(FMT_PUT_RFC1123GMT, t)) : t \in to_time_t(tp) }

\* FullDate::write(os, type): the outcomes, each [os |-> the text written,
\* thrown |-> whether an exception leaves the function].  The default label
\* builds a std::runtime_error and drops it: there is no throw.
FullDate_write_dash(tp, type) ==
    IF type = "RFC1123" THEN {written(to_stream(FMT_WRITE_RFC850, tp))}
    ELSE IF type = "RFC1123GMT" THEN write_gmt(tp)
    ELSE IF type = "RFC850" THEN {written(to_stream(FMT_WRITE_RFC850, tp))}
    ELSE IF type = "AscTime" THEN {written(to_stream(FMT_ASCTIME, tp))}
    ELSE {written(<<>>)}

FullDate_write(tp, type) ==
    IF type = "RFC1123" THEN {written(to_stream(FMT_RFC1123, tp))}
    ELSE IF type = "RFC1123GMT" THEN write_gmt(tp)
    ELSE IF type = "RFC850" THEN {written(to_stream(FMT_WRITE_RFC850, tp))}
    ELSE IF type = "AscTime" THEN {written(to_stream(FMT_ASCTIME, tp))}
    ELSE {written(<<>>)}

(***************************************************************************)
(* CacheDirective                                                          *)
(***************************************************************************)
\* the four kinds that init() and delta() name
DurationKinds == {"MaxAge", "SMaxAge", "MaxStale", "MinFresh"}

\* kinds that reach the default label of both switches
FlagKinds == {"NoCache", "NoStore", "Private", "Public"}

\* CacheDirective::init on a value-initialised object (data all zero): the
\* four members of the union data share one cell
CacheDirective_init_skip(directive, delta) ==
    [directive_ |-> directive,
     data |-> IF directive \in {"MaxAge", "MaxStale", "MinFresh"} THEN delta ELSE 0]

CacheDirective_init(directive, delta) ==
    [directive_ |-> directive,
     data |-> IF directive = "MaxAge" THEN delta
              ELSE IF directive = "SMaxAge" THEN delta
              ELSE IF directive = "MaxStale" THEN delta
              ELSE IF directive = "MinFresh" THEN delta
              ELSE 0]

\* CacheDirective::delta(): the seconds returned, or std::domain_error
CacheDirective_delta(cd) ==
    IF cd.directive_ = "MaxAge" THEN [status |-> "value", v |-> cd.data]
    ELSE IF cd.directive_ = "SMaxAge" THEN [status |-> "value", v |-> cd.data]
    ELSE IF cd.directive_ = "MaxStale" THEN [status |-> "value", v |-> cd.data]
    ELSE IF cd.directive_ = "MinFresh" THEN [status |-> "value", v |-> cd.data]
    ELSE [status |-> "domain_error", v |-> 0]

(***************************************************************************)
(* The inputs followed: header values in each of the layouts, well formed  *)
(* and not, each also with text appended                                   *)
(***************************************************************************)
\* RFC 1123, space separated
\*   "Mon, 02 Jan 2006 15:04:05 GMT"
\*   "Sun, 06 Nov 1994 08:49:37 GMT"
\*   "Mon, 26 May 2025 18:38:48 GMT"
\*   "Thu, 01 Jan 1970 00:00:00 GMT"
\*   "Wed, 31 Dec 1969 23:59:59 GMT"
\*   "Tue, 29 Feb 2000 12:00:00 GMT"
\*   "Mon, 02 Jan 2006 15:04:05 UTC"
\*   "mon, 2 jan 2006 5:4:5 gmt"
\*   "Mon, 02 Jan 6 15:04:05 GMT"
\*   "Sun, 02 Jan -006 15:04:05 GMT"
\*   "Fri, 31 Dec 9999 23:59:59 GMT"
Rfc1123Inputs ==
    {
      <<"M","o","n",","," ","0","2"," ","J","a","n"," ","2","0","0","6"," ","1","5",":","0","4",":","0","5"," ","G","M","T">>,
      <<"S","u","n",","," ","0","6"," ","N","o","v"," ","1","9","9","4"," ","0","8",":","4","9",":","3","7"," ","G","M","T">>,
      <<"M","o","n",","," ","2","6"," ","M","a","y"," ","2","0","2","5"," ","1","8",":","3","8",":","4","8"," ","G","M","T">>,
      <<"T","h","u",","," ","0","1"," ","J","a","n"," ","1","9","7","0"," ","0","0",":","0","0",":","0","0"," ","G","M","T">>,
      <<"W","e","d",","," ","3","1"," ","D","e","c"," ","1","9","6","9"," ","2","3",":","5","9",":","5","9"," ","G","M","T">>,
      <<"T","u","e",","," ","2","9"," ","F","e","b"," ","2","0","0","0"," ","1","2",":","0","0",":","0","0"," ","G","M","T">>,
      <<"M","o","n",","," ","0","2"," ","J","a","n"," ","2","0","0","6"," ","1","5",":","0","4",":","0","5"," ","U","T","C">>,
      <<"m","o","n",","," ","2"," ","j","a","n"," ","2","0","0","6"," ","5",":","4",":","5"," ","g","m","t">>,
      <<"M","o","n",","," ","0","2"," ","J","a","n"," ","6"," ","1","5",":","0","4",":","0","5"," ","G","M","T">>,
      <<"S","u","n",","," ","0","2"," ","J","a","n"," ","-","0","0","6"," ","1","5",":","0","4",":","0","5"," ","G","M","T">>,
      <<"F","r","i",","," ","3","1"," ","D","e","c"," ","9","9","9","9"," ","2","3",":","5","9",":","5","9"," ","G","M","T">> }

\* RFC 1123 with dashes, the year in four digits and in two
\*   "Mon, 02-Jan-2006 15:04:05 GMT"
\*   "Sun, 06-Nov-1994 08:49:37 GMT"
\*   "Mon, 26-May-2025 18:38:48 GMT"
\*   "Thu, 01-Jan-1970 00:00:00 GMT"
\*   "Wed, 31-Dec-1969 23:59:59 GMT"
\*   "Tue, 29-Feb-2000 12:00:00 GMT"
\*   "Mon, 02-Jan-06 15:04:05 GMT"
\*   "Sun, 06-Nov-94 08:49:37 GMT"
\*   "Mon, 26-May-25 18:38:48 GMT"
\*   "Thu, 01-Jan-70 00:00:00 GMT"
\*   "Wed, 31-Dec-69 23:59:59 GMT"
\*   "Tue, 29-Feb-00 12:00:00 GMT"
DashInputs ==
    {
      <<"M","o","n",","," ","0","2","-","J","a","n","-","2","0","0","6"," ","1","5",":","0","4",":","0","5"," ","G","M","T">>,
      <<"S","u","n",","," ","0","6","-","N","o","v","-","1","9","9","4"," ","0","8",":","4","9",":","3","7"," ","G","M","T">>,
      <<"M","o","n",","," ","2","6","-","M","a","y","-","2","0","2","5"," ","1","8",":","3","8",":","4","8"," ","G","M","T">>,
      <<"T","h","u",","," ","0","1","-","J","a","n","-","1","9","7","0"," ","0","0",":","0","0",":","0","0"," ","G","M","T">>,
      <<"W","e","d",","," ","3","1","-","D","e","c","-","1","9","6","9"," ","2","3",":","5","9",":","5","9"," ","G","M","T">>,
      <<"T","u","e",","," ","2","9","-","F","e","b","-","2","0","0","0"," ","1","2",":","0","0",":","0","0"," ","G","M","T">>,
      <<"M","o","n",","," ","0","2","-","J","a","n","-","0","6"," ","1","5",":","0","4",":","0","5"," ","G","M","T">>,
      <<"S","u","n",","," ","0","6","-","N","o","v","-","9","4"," ","0","8",":","4","9",":","3","7"," ","G","M","T">>,
      <<"M","o","n",","," ","2","6","-","M","a","y","-","2","5"," ","1","8",":","3","8",":","4","8"," ","G","M","T">>,
      <<"T","h","u",","," ","0","1","-","J","a","n","-","7","0"," ","0","0",":","0","0",":","0","0"," ","G","M","T">>,
      <<"W","e","d",","," ","3","1","-","D","e","c","-","6","9"," ","2","3",":","5","9",":","5","9"," ","G","M","T">>,
      <<"T","u","e",","," ","2","9","-","F","e","b","-","0","0"," ","1","2",":","0","0",":","0","0"," ","G","M","T">> }

\* RFC 850
\*   "Monday, 02-Jan-06 15:04:05 GMT"
\*   "Sunday, 06-Nov-94 08:49:37 GMT"
\*   "Monday, 26-May-25 18:38:48 GMT"
\*   "Thursday, 01-Jan-70 00:00:00 GMT"
\*   "Wednesday, 31-Dec-69 23:59:59 GMT"
\*   "Tuesday, 29-Feb-00 12:00:00 GMT"
Rfc850Inputs ==
    {
      <<"M","o","n","d","a","y",","," ","0","2","-","J","a","n","-","0","6"," ","1","5",":","0","4",":","0","5"," ","G","M","T">>,
      <<"S","u","n","d","a","y",","," ","0","6","-","N","o","v","-","9","4"," ","0","8",":","4","9",":","3","7"," ","G","M","T">>,
      <<"M","o","n","d","a","y",","," ","2","6","-","M","a","y","-","2","5"," ","1","8",":","3","8",":","4","8"," ","G","M","T">>,
      <<"T","h","u","r","s","d","a","y",","," ","0","1","-","J","a","n","-","7","0"," ","0","0",":","0","0",":","0","0"," ","G","M","T">>,
      <<"W","e","d","n","e","s","d","a","y",","," ","3","1","-","D","e","c","-","6","9"," ","2","3",":","5","9",":","5","9"," ","G","M","T">>,
      <<"T","u","e","s","d","a","y",","," ","2","9","-","F","e","b","-","0","0"," ","1","2",":","0","0",":","0","0"," ","G","M","T">> }

\* asctime
\*   "Mon Jan  2 15:04:05 2006"
\*   "Sun Nov  6 08:49:37 1994"
\*   "Mon May 26 18:38:48 2025"
\*   "Thu Jan  1 00:00:00 1970"
\*   "Wed Dec 31 23:59:59 1969"
\*   "Tue Feb 29 12:00:00 2000"
\*   "Mon Jan 02 15:04:05 2006"
AsctimeInputs ==
    {
      <<"M","o","n"," ","J","a","n"," "," ","2"," ","1","5",":","0","4",":","0","5"," ","2","0","0","6">>,
      <<"S","u","n"," ","N","o","v"," "," ","6"," ","0","8",":","4","9",":","3","7"," ","1","9","9","4">>,
      <<"M","o","n"," ","M","a","y"," ","2","6"," ","1","8",":","3","8",":","4","8"," ","2","0","2","5">>,
      <<"T","h","u"," ","J","a","n"," "," ","1"," ","0","0",":","0","0",":","0","0"," ","1","9","7","0">>,
      <<"W","e","d"," ","D","e","c"," ","3","1"," ","2","3",":","5","9",":","5","9"," ","1","9","6","9">>,
      <<"T","u","e"," ","F","e","b"," ","2","9"," ","1","2",":","0","0",":","0","0"," ","2","0","0","0">>,
      <<"M","o","n"," ","J","a","n"," ","0","2"," ","1","5",":","0","4",":","0","5"," ","2","0","0","6">> }

\* decimal digits: seconds since the epoch, up to and beyond 9223372036 (the
\* last second whose nanoseconds fit 64 bits), 2^63 and 2^64
\*   "1136214245"
\*   "784111777"
\*   "1748284728"
\*   "0"
\*   "951825600"
\*   "1"
\*   "007"
\*   "9223372036"
\*   "9223372037"
\*   "253402300799"
\*   "950400000000"
\*   "67767976233532799"
\*   "9223372036854775807"
\*   "9223372036854775808"
\*   "18446744073709551615"
\*   "18446744073709551616"
\*   "99999999999999999999"
\*   "100000000000000000000000"
\*   "000000000000000000000042"
DigitInputs ==
    {
      <<"1","1","3","6","2","1","4","2","4","5">>,
      <<"7","8","4","1","1","1","7","7","7">>,
      <<"1","7","4","8","2","8","4","7","2","8">>,
      <<"0">>,
      <<"9","5","1","8","2","5","6","0","0">>,
      <<"1">>,
      <<"0","0","7">>,
      <<"9","2","2","3","3","7","2","0","3","6">>,
      <<"9","2","2","3","3","7","2","0","3","7">>,
      <<"2","5","3","4","0","2","3","0","0","7","9","9">>,
      <<"9","5","0","4","0","0","0","0","0","0","0","0">>,
      <<"6","7","7","6","7","9","7","6","2","3","3","5","3","2","7","9","9">>,
      <<"9","2","2","3","3","7","2","0","3","6","8","5","4","7","7","5","8","0","7">>,
      <<"9","2","2","3","3","7","2","0","3","6","8","5","4","7","7","5","8","0","8">>,
      <<"1","8","4","4","6","7","4","4","0","7","3","7","0","9","5","5","1","6","1","5">>,
      <<"1","8","4","4","6","7","4","4","0","7","3","7","0","9","5","5","1","6","1","6">>,
      <<"9","9","9","9","9","9","9","9","9","9","9","9","9","9","9","9","9","9","9","9">>,
      <<"1","0","0","0","0","0","0","0","0","0","0","0","0","0","0","0","0","0","0","0","0","0","0","0">>,
      <<"0","0","0","0","0","0","0","0","0","0","0","0","0","0","0","0","0","0","0","0","0","0","4","2">> }

\* texts no grammar matches: a wrong weekday, no such day, no such hour, a missing zone, other text
\*   "Tue, 02 Jan 2006 15:04:05 GMT"
\*   "Mon, 30 Feb 2006 15:04:05 GMT"
\*   "Mon, 02 Jan 2006 24:00:00 GMT"
\*   "Mon, 02 Jan 2006 15:04:05"
\*   "Mond, 02 Jan 2006 15:04:05 GMT"
\*   "not a date"
\*   "12a"
\*   "-1"
\*   "a"
MalformedInputs ==
    {
      <<"T","u","e",","," ","0","2"," ","J","a","n"," ","2","0","0","6"," ","1","5",":","0","4",":","0","5"," ","G","M","T">>,
      <<"M","o","n",","," ","3","0"," ","F","e","b"," ","2","0","0","6"," ","1","5",":","0","4",":","0","5"," ","G","M","T">>,
      <<"M","o","n",","," ","0","2"," ","J","a","n"," ","2","0","0","6"," ","2","4",":","0","0",":","0","0"," ","G","M","T">>,
      <<"M","o","n",","," ","0","2"," ","J","a","n"," ","2","0","0","6"," ","1","5",":","0","4",":","0","5">>,
      <<"M","o","n","d",","," ","0","2"," ","J","a","n"," ","2","0","0","6"," ","1","5",":","0","4",":","0","5"," ","G","M","T">>,
      <<"n","o","t"," ","a"," ","d","a","t","e">>,
      <<"1","2","a">>,
      <<"-","1">>,
      <<"a">> }

\* text appended to an input: nothing, white space (a space, a carriage
\* return), and text that is not white space
Suffixes ==
    { <<>>, <<" ">>, <<"\r">>, <<"x">>, <<" ","x">>, <<"!">>, <<"7">> }

Inputs ==
    { b \o x : b \in Rfc1123Inputs \cup DashInputs \cup Rfc850Inputs
                     \cup AsctimeInputs \cup DigitInputs \cup MalformedInputs
                     \cup { <<>> },
               x \in Suffixes }

(***************************************************************************)
(* FullDate::fromString                                                    *)
(***************************************************************************)
\* the recognizers in the order of the if / else-if chain
Cascade == <<"parse_RFC_1123", "parse_RFC_850", "parse_asctime", "parse_epoch">>

\* the call made at one link of the chain, as its set of outcomes: status
\* "true" or "false" is the bool returned, any other status the exception
\* thrown
as_status(r) == {[status |-> IF r.ok THEN "true" ELSE "false", tp |-> r.tp]}

Recognize(name, s, t) ==
    IF name = "parse_epoch" THEN parse_epoch(s, t)
    ELSE IF name = "parse_RFC_1123" THEN as_status(parse_RFC_1123(s, t))
    ELSE IF name = "parse_RFC_850" THEN as_status(parse_RFC_850(s, t))
    ELSE as_status(parse_asctime(s, t))

\* where control goes when the recognizer `name` returns false
ElseIf_skip(name) ==
    IF name = "parse_RFC_1123" THEN "parse_asctime"
    ELSE IF name = "parse_RFC_850" THEN "parse_asctime"
    ELSE IF name = "parse_asctime" THEN "parse_epoch"
    ELSE "log"

ElseIf(name) ==
    IF name = "parse_RFC_1123" THEN "parse_RFC_850"
    ELSE IF name = "parse_RFC_850" THEN "parse_asctime"
    ELSE IF name = "parse_asctime" THEN "parse_epoch"
    ELSE "log"

\* the texts of the diagnostics
MSG_FAILED ==
    <<"F", "a", "i", "l", "e", "d", " ", "p", "a", "r", "s", "i", "n", "g", " ", "d", "a", "t", "e", ":", " ">>

MSG_INVALID_DATE ==
    <<"I", "n", "v", "a", "l", "i", "d", " ", "D", "a", "t", "e", " ", "f", "o", "r", "m", "a", "t">>

MSG_STOULL ==
    <<"s", "t", "o", "u", "l", "l">>

\* PS_LOG_DEBUG_ARGS("Failed parsing date: %s", str.c_str())
DebugLine(s) ==
    MSG_FAILED \o s

\* a default-constructed time_point: the epoch
DefaultTp == S64(FALSE, Zero64)

NoDate == [set |-> FALSE, tp |-> DefaultTp]

NoError == [kind |-> "none", what |-> <<>>]

NoPrev == [tp |-> DefaultTp, type |-> "none", by |-> "none"]

NoDirective == [directive_ |-> "NoCache", data |-> 0]

NoArg == [given |-> FALSE, delta |-> 0]

NoDelta == [status |-> "none", v |-> 0]

(***************************************************************************)
(* The state machine                                                       *)
(***************************************************************************)
\* how often the text written is parsed again
MaxReparse == 1

\* the largest small duration given to a CacheDirective
MaxDelta == 3

Deltas == 0..MaxDelta \cup {3600}

VARIABLES
    str,      \* the argument of fromString
    pc,       \* where control is
    tp,       \* fromString's local time point
    tried,    \* the recognizers called so far, in order
    thrown,   \* the exception that has left fromString
    log,      \* the debug lines emitted
    date,     \* the FullDate returned
    os,       \* what write has put on the stream
    wrote,    \* the tag write was called with
    wthrown,  \* whether write threw
    gen,      \* how often the written text has been parsed again
    prev,     \* the date written before the last re-parse
    cd,       \* the CacheDirective constructed
    cdArg,    \* the duration given to its constructor
    cdOut     \* what delta() gave

vars == <<str, pc, tp, tried, thrown, log, date, os, wrote, wthrown, gen, prev,
          cd, cdArg, cdOut>>

dateVars == <<str, tp, tried, thrown, log, date, os, wrote, wthrown, gen, prev>>

Init ==
    /\ \/ pc = "parse_RFC_1123" /\ str \in Inputs
       \/ pc = "cache" /\ str = <<>>
    /\ tp = DefaultTp
    /\ tried = <<>>
    /\ thrown = NoError
    /\ log = <<>>
    /\ date = NoDate
    /\ os = <<>>
    /\ wrote = "none"
    /\ wthrown = FALSE
    /\ gen = 0
    /\ prev = NoPrev
    /\ cd = NoDirective
    /\ cdArg = NoArg
    /\ cdOut = NoDelta

\* one link of fromString's chain: call the recognizer; return FullDate(tp) on
\* true, go on to the next link on false, leave by the exception otherwise
RunRecognizer ==
    /\ pc \in Range(Cascade)
    /\ \E r \in Recognize(pc, str, tp) :
           /\ tp' = r.tp
           /\ tried' = Append(tried, pc)
           /\ IF r.status = "true"
              THEN pc' = "returned" /\ date' = [set |-> TRUE, tp |-> r.tp]
                   /\ thrown' = thrown
              ELSE IF r.status = "false"
              THEN pc' = ElseIf(pc) /\ date' = date /\ thrown' = thrown
              ELSE pc' = "thrown" /\ date' = date
                   /\ thrown' = [kind |-> r.status, what |-> MSG_STOULL]
    /\ UNCHANGED <<str, log, os, wrote, wthrown, gen, prev, cd, cdArg, cdOut>>

\* the debug line after the chain
LogDebug ==
    /\ pc = "log"
    /\ log' = Append(log, DebugLine(str))
    /\ pc' = "throw"
    /\ UNCHANGED <<str, tp, tried, thrown, date, os, wrote, wthrown, gen, prev,
                   cd, cdArg, cdOut>>

\* throw std::runtime_error("Invalid Date format")
ThrowInvalidDate ==
    /\ pc = "throw"
    /\ thrown' = [kind |-> "runtime_error", what |-> MSG_INVALID_DATE]
    /\ pc' = "thrown"
    /\ UNCHANGED <<str, tp, tried, log, date, os, wrote, wthrown, gen, prev,
                   cd, cdArg, cdOut>>

\* FullDate::write on the date returned, with a tag of the enumeration or a
\* value outside it
Write ==
    /\ pc = "returned"
    /\ \E type \in Types \cup {"Invalid"} :
          \E r \in FullDate_write(date.tp, type) :
              /\ os' = r.os
              /\ wthrown' = r.thrown
              /\ wrote' = type
    /\ pc' = "written"
    /\ UNCHANGED <<str, tp, tried, thrown, log, date, gen, prev, cd, cdArg, cdOut>>

\* fromString on the text just written, when there is a text to give it
Reparse ==
    /\ pc = "written"
    /\ ~wthrown
    /\ os # Indeterminate
    /\ gen < MaxReparse
    /\ str' = os
    /\ prev' = [tp |-> date.tp, type |-> wrote, by |-> tried[Len(tried)]]
    /\ gen' = gen + 1
    /\ pc' = "parse_RFC_1123"
    /\ tp' = DefaultTp
    /\ tried' = <<>>
    /\ date' = NoDate
    /\ os' = <<>>
    /\ wrote' = "none"
    /\ UNCHANGED <<thrown, log, wthrown, cd, cdArg, cdOut>>

\* CacheDirective(directive)
Construct1 ==
    /\ pc = "cache"
    /\ \E directive \in DurationKinds \cup FlagKinds :
          cd' = CacheDirective_init(directive, 0)
    /\ cdArg' = NoArg
    /\ pc' = "constructed"
    /\ UNCHANGED <<dateVars, cdOut>>

\* CacheDirective(directive, delta)
Construct2 ==
    /\ pc = "cache"
    /\ \E directive \in DurationKinds \cup FlagKinds, delta \in Deltas :
          /\ cd' = CacheDirective_init(directive, delta)
          /\ cdArg' = [given |-> TRUE, delta |-> delta]
    /\ pc' = "constructed"
    /\ UNCHANGED <<dateVars, cdOut>>

\* CacheDirective::delta()
CallDelta ==
    /\ pc = "constructed"
    /\ cdOut' = CacheDirective_delta(cd)
    /\ pc' = "delta_done"
    /\ UNCHANGED <<dateVars, cd, cdArg>>

Next ==
    \/ RunRecognizer
    \/ LogDebug
    \/ ThrowInvalidDate
    \/ Write
    \/ Reparse
    \/ Construct1
    \/ Construct2
    \/ CallDelta

Spec == Init /\ [][Next]_vars

(***************************************************************************)
(* Properties                                                              *)
(***************************************************************************)
Failing == pc \in {"log", "throw", "thrown"}

LastTried == tried[Len(tried)]

AllDigits(s) == \A i \in 1..Len(s) : isdigit(s[i])

\* text carries s: s stands in it as a run of consecutive characters
Carries(text, s) ==
    \E i \in 0..(Len(text) - Len(s)) : SubSeq(text, i + 1, i + Len(s)) = s

\* the recognizer `name`, called on s alone, returns false
Refuses(name, s) ==
    \A r \in Recognize(name, s, DefaultTp) : r.status = "false"

\* the position at which the recognizer `name`, accepting s, stopped reading
ConsumedBy(name, s) ==
    IF name = "parse_RFC_1123"
    THEN (IF date_parse(FMT_RFC1123, s).ok THEN date_parse_end(FMT_RFC1123, s)
          ELSE date_parse_end(FMT_RFC1123_DASH, s))
    ELSE IF name = "parse_RFC_850" THEN date_parse_end(FMT_RFC850, s)
    ELSE date_parse_end(FMT_ASCTIME, s)

\* C1: fromString calls the recognizers in the order RFC 1123, RFC 850,
\* asctime, epoch; every recognizer called before the last one returned false;
\* the FullDate returned holds the time point of the last one called, which
\* returned true, so nothing is called after a success and the date is never
\* a value an earlier, failed recognizer left in tp.
C1_FirstSuccessWins ==
    /\ Len(tried) <= Len(Cascade)
    /\ \A i \in DOMAIN tried : tried[i] = Cascade[i]
    /\ \A i \in 1..(Len(tried) - 1) : Refuses(tried[i], str)
    /\ pc \in Range(Cascade) =>
          /\ pc = Cascade[Len(tried) + 1]
          /\ \A i \in DOMAIN tried : Refuses(tried[i], str)
    /\ pc = "returned" => date.set
    /\ date.set =>
          /\ Len(tried) >= 1
          /\ \E r \in Recognize(LastTried, str, DefaultTp) :
                r.status = "true" /\ date.tp = r.tp

\* C1 witness: asctime accepted the input after RFC 1123 and RFC 850 refused it
C1_Witness ==
    /\ pc = "returned"
    /\ tried = <<"parse_RFC_1123", "parse_RFC_850", "parse_asctime">>
    /\ date.tp = date_parse(FMT_ASCTIME, str).tp

\* C2: whenever fromString leaves by an exception, the exception is the
\* runtime_error "Invalid Date format", thrown after the debug line and with no
\* date returned.
C2_OnlyInvalidDateFormat ==
    pc = "thrown" =>
        /\ thrown.kind = "runtime_error"
        /\ Len(log) = 1
        /\ ~date.set

\* C3: a non-empty string of digits denoting n <= 2^64 - 1 is parsed to the
\* time point epoch + n seconds, without wrap or change of sign; one denoting a
\* larger n is not parsed to a date.
C3_EpochWithoutWrap ==
    (gen = 0 /\ Len(str) > 0 /\ AllDigits(str)) =>
        IF stoull(str).status = "ok"
        THEN /\ ~Failing
             /\ date.set => date.tp = S64(FALSE, stoull(str).v)
        ELSE ~date.set

\* C4: a date recognizer that accepts the input has read all of it: what
\* follows the last field is at most white space.
C4_NoTrailingGarbage ==
    (date.set /\ LastTried # "parse_epoch") =>
        \A i \in ConsumedBy(LastTried, str)..Len(str) : isspace(str[i])

\* C5: write with a tag outside RFC1123, RFC1123GMT, RFC850, AscTime throws.
C5_InvalidTagThrows ==
    wrote = "Invalid" => wthrown

\* C6: delta() of a directive of a duration-bearing kind returns the duration
\* the constructor was given, or zero when it was given none; of any other
\* kind it throws, and the duration given is not stored.
C6_Delta ==
    pc = "delta_done" =>
        IF cd.directive_ \in DurationKinds
        THEN cdOut = [status |-> "value",
                      v |-> IF cdArg.given THEN cdArg.delta ELSE 0]
        ELSE /\ cdOut.status = "domain_error"
             /\ cdOut.v = 0
             /\ cd.data = 0

\* C6 witness: CacheDirective(SMaxAge, 3600s).delta() has returned 3600s
C6_Witness ==
    /\ pc = "delta_done"
    /\ cd.directive_ = "SMaxAge"
    /\ cdArg = [given |-> TRUE, delta |-> 3600]
    /\ cdOut = [status |-> "value", v |-> 3600]

\* C7: when fromString fails with the Invalid Date format error, the error
\* delivered to the caller carries the input text.
C7_ErrorCarriesInput ==
    (pc = "thrown" /\ thrown.kind = "runtime_error") => Carries(thrown.what, str)

\* C8: the text write(RFC1123) gives for the date parsed from a string that
\* parse_RFC_1123 accepts is parsed by fromString, and to the same time point.
C8_RoundTrip ==
    (gen >= 1 /\ prev.type = "RFC1123" /\ prev.by = "parse_RFC_1123") =>
        /\ ~Failing
        /\ date.set => date.tp = prev.tp

\* C8 witness: a date parsed from an RFC 1123 string, written and parsed again
C8_Witness ==
    /\ gen = 1
    /\ prev.type = "RFC1123"
    /\ prev.by = "parse_RFC_1123"
    /\ pc = "returned"
    /\ date.tp = prev.tp
    /\ date.tp # DefaultTp

\* a date with dashes and the same date with spaces and a four-digit year
DashPairs ==
    { << <<"M","o","n",","," ","0","2","-","J","a","n","-","0","6"," ","1","5",":","0","4",":","0","5"," ","G","M","T">>,
         <<"M","o","n",","," ","0","2"," ","J","a","n"," ","2","0","0","6"," ","1","5",":","0","4",":","0","5"," ","G","M","T">> >>,
      << <<"S","u","n",","," ","0","6","-","N","o","v","-","9","4"," ","0","8",":","4","9",":","3","7"," ","G","M","T">>,
         <<"S","u","n",","," ","0","6"," ","N","o","v"," ","1","9","9","4"," ","0","8",":","4","9",":","3","7"," ","G","M","T">> >>,
      << <<"M","o","n",","," ","2","6","-","M","a","y","-","2","5"," ","1","8",":","3","8",":","4","8"," ","G","M","T">>,
         <<"M","o","n",","," ","2","6"," ","M","a","y"," ","2","0","2","5"," ","1","8",":","3","8",":","4","8"," ","G","M","T">> >>,
      << <<"T","h","u",","," ","0","1","-","J","a","n","-","7","0"," ","0","0",":","0","0",":","0","0"," ","G","M","T">>,
         <<"T","h","u",","," ","0","1"," ","J","a","n"," ","1","9","7","0"," ","0","0",":","0","0",":","0","0"," ","G","M","T">> >>,
      << <<"W","e","d",","," ","3","1","-","D","e","c","-","6","9"," ","2","3",":","5","9",":","5","9"," ","G","M","T">>,
         <<"W","e","d",","," ","3","1"," ","D","e","c"," ","1","9","6","9"," ","2","3",":","5","9",":","5","9"," ","G","M","T">> >>,
      << <<"T","u","e",","," ","2","9","-","F","e","b","-","0","0"," ","1","2",":","0","0",":","0","0"," ","G","M","T">>,
         <<"T","u","e",","," ","2","9"," ","F","e","b"," ","2","0","0","0"," ","1","2",":","0","0",":","0","0"," ","G","M","T">> >>,
      << <<"M","o","n",","," ","0","2","-","J","a","n","-","2","0","0","6"," ","1","5",":","0","4",":","0","5"," ","G","M","T">>,
         <<"M","o","n",","," ","0","2"," ","J","a","n"," ","2","0","0","6"," ","1","5",":","0","4",":","0","5"," ","G","M","T">> >>,
      << <<"S","u","n",","," ","0","6","-","N","o","v","-","1","9","9","4"," ","0","8",":","4","9",":","3","7"," ","G","M","T">>,
         <<"S","u","n",","," ","0","6"," ","N","o","v"," ","1","9","9","4"," ","0","8",":","4","9",":","3","7"," ","G","M","T">> >>,
      << <<"M","o","n",","," ","2","6","-","M","a","y","-","2","0","2","5"," ","1","8",":","3","8",":","4","8"," ","G","M","T">>,
         <<"M","o","n",","," ","2","6"," ","M","a","y"," ","2","0","2","5"," ","1","8",":","3","8",":","4","8"," ","G","M","T">> >>,
      << <<"T","h","u",","," ","0","1","-","J","a","n","-","1","9","7","0"," ","0","0",":","0","0",":","0","0"," ","G","M","T">>,
         <<"T","h","u",","," ","0","1"," ","J","a","n"," ","1","9","7","0"," ","0","0",":","0","0",":","0","0"," ","G","M","T">> >>,
      << <<"W","e","d",","," ","3","1","-","D","e","c","-","1","9","6","9"," ","2","3",":","5","9",":","5","9"," ","G","M","T">>,
         <<"W","e","d",","," ","3","1"," ","D","e","c"," ","1","9","6","9"," ","2","3",":","5","9",":","5","9"," ","G","M","T">> >>,
      << <<"T","u","e",","," ","2","9","-","F","e","b","-","2","0","0","0"," ","1","2",":","0","0",":","0","0"," ","G","M","T">>,
         <<"T","u","e",","," ","2","9"," ","F","e","b"," ","2","0","0","0"," ","1","2",":","0","0",":","0","0"," ","G","M","T">> >> }

\* C9: a date written with dashes is parsed, and to the same time point as
\* the same date written with spaces ("Mon, 02-Jan-06 15:04:05 GMT" as
\* "Mon, 02 Jan 2006 15:04:05 GMT").
C9_DashEqualsSpace ==
    \A pr \in DashPairs :
        (gen = 0 /\ str = pr[1]) =>
            /\ ~Failing
            /\ date.set => date.tp = date_parse(FMT_RFC1123, pr[2]).tp

\* C10: what write gives for the tags RFC850 and AscTime is the rendering of
\* the date in the format parse_RFC_850 and parse_asctime read (for RFC850 with
\* the full weekday name).
C10_WriteGrammarIsParseGrammar ==
    pc = "written" =>
        /\ wrote = "RFC850" => os = to_stream(FMT_RFC850, date.tp)
        /\ wrote = "AscTime" => os = to_stream(FMT_ASCTIME, date.tp)

====
